---- MODULE Spec2Model ----
(***************************************************************************)
(* Model of scripts/update_data.py of office-ticker: the normalisation of  *)
(* scoreboard events into ticker items (build_items), the favourites       *)
(* resolver (text_has_team and the favourites loop of main) and the        *)
(* merge-and-persist flow of main.                                         *)
(*                                                                         *)
(* Python strings are modelled as sequences of one-character strings, so   *)
(* that str.lower, f-string concatenation, `in` and startswith are         *)
(* computed and not assumed.  The character U+2014 (em dash) is written    *)
(* "--" and U+2022 (bullet) is written "*": each is one element of a       *)
(* sequence, as each is one character of the Python string.                *)
(***************************************************************************)
EXTENDS Integers, Sequences, FiniteSets, TLC

VARIABLES
    \* ---- main(): one run of the script
    pc,            \* position of main: "load", "fetch_today", "fetch_finals",
                   \* "fetch_fallback", "loop_end", "merge", "done", "aborted"
    file,          \* the document at DATA_PATH
    data,          \* main's `data`
    new_today,     \* main's `new_today`
    new_finals,    \* main's `new_finals`
    li,            \* index in ENDPOINTS of the league of the current iteration
    sb_today,      \* locals of the loop body
    sb_finals,
    sb_fallback,
    items_today,
    items_finals,
    \* ---- history of the run (not read by the program)
    file0,         \* the document at DATA_PATH when the run started
    requests,      \* the fetches of the latest league iteration: URL and outcome
    status,        \* per league: "pending", "ok" (line 160 reached), "error" (line 163)
    writes,        \* number of save_data calls of the run
    \* ---- the environment of the run
    upstream,      \* what the scoreboard servers hold during the run
    \* ---- a call of build_items on its own
    b_pc,          \* "call" or "returned"
    b_sb,          \* argument scoreboard
    b_league,      \* argument league_label
    b_mode,        \* argument mode
    b_out          \* the returned list

mainVars == <<pc, file, data, new_today, new_finals, li, sb_today, sb_finals,
              sb_fallback, items_today, items_finals, file0, requests, status, writes,
              upstream>>
buildVars == <<b_pc, b_sb, b_league, b_mode, b_out>>
vars == <<mainVars, upstream, buildVars>>

-----------------------------------------------------------------------------
(* Strings                                                                 *)

UpperChars == <<"A","B","C","D","E","F","G","H","I","J","K","L","M",
                "N","O","P","Q","R","S","T","U","V","W","X","Y","Z">>
LowerChars == <<"a","b","c","d","e","f","g","h","i","j","k","l","m",
                "n","o","p","q","r","s","t","u","v","w","x","y","z">>

\* str.lower on one character
LowerChar(c) ==
    IF \E i \in 1..Len(UpperChars) : UpperChars[i] = c
    THEN LowerChars[CHOOSE i \in 1..Len(UpperChars) : UpperChars[i] = c]
    ELSE c

\* str.lower
Lower(s) == [i \in 1..Len(s) |-> LowerChar(s[i])]

\* `needle in hay`
Contains(hay, needle) ==
    \E h \in {hay}, n \in {needle} :
        \E i \in 0..(Len(h) - Len(n)) : SubSeq(h, i + 1, i + Len(n)) = n

\* hay.startswith(prefix)
StartsWith(hay, prefix) ==
    /\ Len(prefix) <= Len(hay)
    /\ SubSeq(hay, 1, Len(prefix)) = prefix

\* lst[:n]
Take(lst, n) == SubSeq(lst, 1, IF Len(lst) < n THEN Len(lst) ELSE n)

Sp == <<" ">>
Dash == <<"--">>
DigitChars == <<"0","1","2","3","4","5","6","7","8","9">>

\* decimal digits of a natural number below 100, no padding (%-I)
Dec(n) == IF n < 10 THEN <<DigitChars[n + 1]>>
          ELSE <<DigitChars[(n \div 10) + 1], DigitChars[(n % 10) + 1]>>

\* two digits, zero padded (%M)
Dec2(n) == <<DigitChars[(n \div 10) + 1], DigitChars[(n % 10) + 1]>>

S_post == <<"p","o","s","t">>
S_in == <<"i","n">>
S_pre == <<"p","r","e">>
S_HOME == <<"H","O","M","E">>
S_AWAY == <<"A","W","A","Y">>
S_FINAL == <<"F","I","N","A","L",":">>
S_LIVE == <<"L","I","V","E",":">>
S_AT == <<"@">>
S_AM == <<"A","M">>
S_PM == <<"P","M">>
S_ET == <<"E","T">>
S_Game == <<"G","a","m","e">>
S_NoGame == <<"n","o"," ","g","a","m","e","/","r","e","s","u","l","t"," ","t","o","d","a","y">>

-----------------------------------------------------------------------------
(* build_items                                                             *)

\* events[:250] of build_items
MaxVisited == 250

\* comp = comps[0] if comps else {}
EmptyComp == [state |-> <<>>, competitors |-> <<>>,
              date |-> [kind |-> "none", hh |-> 0, mm |-> 0]]
FirstComp(ev) == IF ev.competitions # <<>> THEN ev.competitions[1] ELSE EmptyComp

\* state = (status.get("state") or "").lower()
StateOf(ev) == Lower(FirstComp(ev).state)

\* faulty variant: the state is compared without lower-casing it
Skipped_CaseSensitive(ev, mode) ==
    \/ mode = "finals" /\ FirstComp(ev).state # S_post
    \/ mode = "today" /\ FirstComp(ev).state = S_post

\* the two `continue` tests
Skipped(ev, mode) ==
    \/ mode = "finals" /\ StateOf(ev) # S_post
    \/ mode = "today" /\ StateOf(ev) = S_post

\* next((c for c in competitors if c.get("homeAway") == tag), competitors[dflt])
PickSide(competitors, tag, dflt) ==
    IF \E i \in 1..Len(competitors) : competitors[i].homeAway = tag
    THEN competitors[CHOOSE i \in 1..Len(competitors) :
                        /\ competitors[i].homeAway = tag
                        /\ \A j \in 1..(i - 1) : competitors[j].homeAway # tag]
    ELSE competitors[dflt]

\* shortDisplayName or displayName or placeholder
TeamName(c, placeholder) ==
    IF c.shortDisplayName # <<>> THEN c.shortDisplayName
    ELSE IF c.displayName # <<>> THEN c.displayName
    ELSE placeholder

\* faulty variant: %I in place of %-I, the hour zero-padded
FormatET_PaddedHour(hh, mm) ==
    LET h == (hh + 24 - 5) % 24
        h12 == IF h % 12 = 0 THEN 12 ELSE h % 12
    IN Dec2(h12) \o <<":">> \o Dec2(mm) \o Sp \o (IF h < 12 THEN S_AM ELSE S_PM) \o Sp \o S_ET

\* dt_et.strftime("%-I:%M %p ET") with dt_et = dt_utc + timedelta(hours=-5)
FormatET(hh, mm) ==
    LET h == (hh + 24 - 5) % 24
        h12 == IF h % 12 = 0 THEN 12 ELSE h % 12
    IN Dec(h12) \o <<":">> \o Dec2(mm) \o Sp \o (IF h < 12 THEN S_AM ELSE S_PM) \o Sp \o S_ET

\* time_part: "" when the date is missing, empty or does not parse
TimePart(iso) == IF iso.kind = "ts" THEN FormatET(iso.hh, iso.mm) ELSE <<>>

\* f"{prefix} {away_team} {away_score} — {home_team} {home_score}"
ScoreLine(prefix, away_team, away_score, home_team, home_score) ==
    prefix \o Sp \o away_team \o Sp \o away_score \o Sp \o Dash \o Sp \o home_team \o Sp \o home_score

\* ev.get("name") or ev.get("shortName") or "Game"
FallbackText(ev) ==
    IF ev.name # <<>> THEN ev.name
    ELSE IF ev.shortName # <<>> THEN ev.shortName
    ELSE S_Game

\* faulty variant: a score counts as present only when it is truthy (`if home_score and away_score`)
EventText_TruthyScores(ev) ==
    LET comp == FirstComp(ev)
        state == StateOf(ev)
        competitors == comp.competitors
        two == Len(competitors) >= 2
        home == PickSide(competitors, "home", 1)
        away == PickSide(competitors, "away", 2)
        home_team == IF two THEN TeamName(home, S_HOME) ELSE <<>>
        away_team == IF two THEN TeamName(away, S_AWAY) ELSE <<>>
        scores == two /\ home.score.has /\ away.score.has
                      /\ home.score.v # <<>> /\ away.score.v # <<>>
        time_part == TimePart(comp.date)
    IN IF state = S_post /\ scores
       THEN ScoreLine(S_FINAL, away_team, away.score.v, home_team, home.score.v)
       ELSE IF state = S_in /\ scores
       THEN ScoreLine(S_LIVE, away_team, away.score.v, home_team, home.score.v)
       ELSE IF time_part # <<>> /\ away_team # <<>> /\ home_team # <<>>
       THEN away_team \o Sp \o S_AT \o Sp \o home_team \o Sp \o time_part
       ELSE FallbackText(ev)

\* the text of one event that is not skipped
EventText(ev) ==
    LET comp == FirstComp(ev)
        state == StateOf(ev)
        competitors == comp.competitors
        two == Len(competitors) >= 2
        home == PickSide(competitors, "home", 1)
        away == PickSide(competitors, "away", 2)
        home_team == IF two THEN TeamName(home, S_HOME) ELSE <<>>
        away_team == IF two THEN TeamName(away, S_AWAY) ELSE <<>>
        scores == two /\ home.score.has /\ away.score.has
        time_part == TimePart(comp.date)
    IN IF state = S_post /\ scores
       THEN ScoreLine(S_FINAL, away_team, away.score.v, home_team, home.score.v)
       ELSE IF state = S_in /\ scores
       THEN ScoreLine(S_LIVE, away_team, away.score.v, home_team, home.score.v)
       ELSE IF time_part # <<>> /\ away_team # <<>> /\ home_team # <<>>
       THEN away_team \o Sp \o S_AT \o Sp \o home_team \o Sp \o time_part
       ELSE FallbackText(ev)

\* the events the loop visits: (scoreboard.get("events") or [])[:250]
VisitedEvents(scoreboard) == Take(scoreboard.events, MaxVisited)

\* one pass of the loop body for an event that is not skipped: items.append(...)
ItemOf(ev, league_label) == [league |-> league_label, text |-> EventText(ev)]

\* build_items(scoreboard, league_label, mode), for a scoreboard that is a dict:
\* the loop over the visited events, `continue` on the skipped ones.  (The
\* kept events are bound once by the set constructor.)
build_items(scoreboard, league_label, mode) ==
    LET Visited(ev) == ~Skipped(ev, mode)
    IN CHOOSE items \in { [k \in 1..Len(kept) |-> ItemOf(kept[k], league_label)] :
                             kept \in {SelectSeq(VisitedEvents(scoreboard), Visited)} } : TRUE

\* scoreboard.get raises AttributeError when the decoded JSON is not an object
BuildRaises(scoreboard) == scoreboard.shape # "dict"


-----------------------------------------------------------------------------
(* Inputs of build_items: decoded scoreboard JSON                          *)

N_Eagles == <<"E","a","g","l","e","s">>
N_Cowboys == <<"C","o","w","b","o","y","s">>
N_Jets == <<"J","e","t","s">>
N_Dallas == <<"D","a","l","l","a","s"," ","C","o","w","b","o","y","s">>
N_EvName == <<"E","a","g","l","e","s"," ","a","t"," ","C","o","w","b","o","y","s">>
N_EvShort == <<"P","H","I"," ","@"," ","D","A","L">>
N_POST == <<"P","O","S","T">>
N_half == <<"h","a","l","f">>

NoScore == [has |-> FALSE, v |-> <<>>]
Score(s) == [has |-> TRUE, v |-> s]
NoDate == [kind |-> "none", hh |-> 0, mm |-> 0]
BadDate == [kind |-> "bad", hh |-> 0, mm |-> 0]
Stamp(h, m) == [kind |-> "ts", hh |-> h, mm |-> m]

Competitor(tag, short, disp, sc) ==
    [homeAway |-> tag, shortDisplayName |-> short, displayName |-> disp, score |-> sc]

StateSet == {<<>>, S_pre, S_in, S_post, N_POST, N_half}

CompetitorsSet ==
    { <<>>,
      <<Competitor("home", N_Cowboys, N_Dallas, Score(<<"2","1">>))>>,
      <<Competitor("home", N_Cowboys, N_Dallas, Score(<<"2","1">>)),
        Competitor("away", N_Eagles, <<>>, Score(<<"3">>))>>,
      <<Competitor("away", N_Eagles, <<>>, Score(<<"3">>)),
        Competitor("home", N_Cowboys, N_Dallas, Score(<<"2","1">>))>>,
      <<Competitor("", <<>>, N_Dallas, Score(<<>>)),
        Competitor("", <<>>, <<>>, Score(<<"0">>))>>,
      <<Competitor("home", N_Cowboys, <<>>, NoScore),
        Competitor("away", N_Eagles, <<>>, Score(<<"3">>))>>,
      <<Competitor("away", N_Jets, <<>>, Score(<<"7">>)),
        Competitor("away", N_Eagles, <<>>, NoScore),
        Competitor("home", N_Cowboys, <<>>, Score(<<"1","0">>))>> }

DateSet == {NoDate, BadDate, Stamp(0, 15), Stamp(17, 0), Stamp(5, 5), Stamp(16, 59), Stamp(4, 30)}

NamesSet == {<<N_EvName, N_EvShort>>, <<<<>>, N_EvShort>>, <<<<>>, <<>>>>}

Event(names, st, cs, dt) ==
    [name |-> names[1], shortName |-> names[2],
     competitions |-> <<[state |-> st, competitors |-> cs, date |-> dt]>>]

EventSet ==
    { Event(n, st, cs, dt) : n \in NamesSet, st \in StateSet, cs \in CompetitorsSet, dt \in DateSet }

\* an event without competitions, and one whose second competition is final
EvNoComp == [name |-> N_EvName, shortName |-> <<>>, competitions |-> <<>>]
EvTwoComps ==
    [name |-> <<>>, shortName |-> <<>>,
     competitions |-> << [state |-> S_pre, competitors |-> <<>>, date |-> Stamp(1, 0)],
                         [state |-> S_post, competitors |-> <<>>, date |-> NoDate] >>]

EvScheduled ==
    Event(<<N_EvName, N_EvShort>>, S_pre,
          <<Competitor("home", N_Cowboys, N_Dallas, NoScore),
            Competitor("away", N_Eagles, <<>>, NoScore)>>, Stamp(0, 15))
EvLive ==
    Event(<<N_EvName, N_EvShort>>, S_in,
          <<Competitor("home", N_Jets, <<>>, Score(<<"1","4">>)),
            Competitor("away", N_Eagles, <<>>, Score(<<"7">>))>>, Stamp(18, 0))
EvFinal ==
    Event(<<N_EvName, N_EvShort>>, S_post,
          <<Competitor("home", N_Cowboys, N_Dallas, Score(<<"2","1">>)),
            Competitor("away", N_Jets, <<>>, Score(<<"3">>))>>, Stamp(18, 0))
EvBare(st) == Event(<<<<"G">>, <<>>>>, st, <<>>, NoDate)

\* events used to build scoreboards of several events
OrderEvents == {EvScheduled, EvLive, EvFinal, EvNoComp, EvTwoComps, EvBare(N_POST)}

\* length of the scoreboards enumerated over OrderEvents
MaxEvents == 2

Scoreboard(evs) == [shape |-> "dict", events |-> evs]

RECURSIVE SeqsUpTo(_, _)
SeqsUpTo(S, n) ==
    IF n = 0 THEN {<<>>}
    ELSE LET shorter == SeqsUpTo(S, n - 1)
         IN shorter \cup {Append(q, e) : q \in shorter, e \in S}

\* number of events of the long scoreboard: more than build_items visits
BigLen == 252

\* a scoreboard longer than events[:250]: scheduled and final events alternate
SbBig == Scoreboard([i \in 1..BigLen |-> IF i % 2 = 1 THEN EvBare(S_pre) ELSE EvBare(S_post)])
SbEmpty == Scoreboard(<<>>)
SbSmall == Scoreboard(<<EvScheduled, EvFinal>>)
SbNotDict == [shape |-> "list", events |-> <<>>]

BuildInputs ==
    {Scoreboard(<<e>>) : e \in EventSet}
        \cup {Scoreboard(q) : q \in SeqsUpTo(OrderEvents, MaxEvents)}
        \cup {SbBig}

-----------------------------------------------------------------------------
(* A call of build_items on its own                                        *)

BuildInit ==
    /\ b_pc = "call"
    /\ b_sb \in BuildInputs
    /\ b_league \in {"NFL", "NCAA"}
    /\ b_mode \in {"today", "finals"}
    /\ b_out = <<>>
    /\ pc = "idle" /\ file = "none" /\ data = "none" /\ file0 = "none"
    /\ new_today = <<>> /\ new_finals = <<>> /\ li = 0
    /\ sb_today = SbEmpty /\ sb_finals = SbEmpty /\ sb_fallback = SbEmpty
    /\ items_today = <<>> /\ items_finals = <<>>
    /\ requests = <<>> /\ status = <<>> /\ writes = 0 /\ upstream = "quiet"

BuildCall ==
    /\ b_pc = "call"
    /\ b_out' = build_items(b_sb, b_league, b_mode)
    /\ b_pc' = "returned"
    /\ UNCHANGED <<b_sb, b_league, b_mode, mainVars>>

BuildNext == BuildCall

BuildSpec == BuildInit /\ [][BuildNext]_vars


-----------------------------------------------------------------------------
(* text_has_team and the favourites of main                                *)

\* faulty variant: plain substring test, no word boundary
text_has_team_Substring(text, team) == Contains(Lower(text), Lower(team))

\* text_has_team(text, team)
text_has_team(text, team) ==
    \E t \in {Lower(team)}, s \in {Lower(text)} :
        \/ Contains(Sp \o s \o Sp, Sp \o t \o Sp)
        \/ StartsWith(s, t \o Sp)

\* favs[:60]
MaxFavorites == 60

\* data.get(key, []) for a list-valued key
GetList(doc, key) ==
    IF key \notin doc.keys THEN <<>>
    ELSE IF key = "today" THEN doc.today
    ELSE IF key = "finals" THEN doc.finals
    ELSE doc.favorites

\* data.get("favoritesTeams", {}): the (league, teams) entries in iteration order
GetFavMap(doc) == IF "favoritesTeams" \in doc.keys THEN doc.favoritesTeams ELSE <<>>

\* one pass of the inner loop: the first hit among the candidates, or the placeholder
ResolveTeam(candidates, league_key, team) ==
    LET Hit(it) == it.league = league_key /\ text_has_team(it.text, team)
        hits == SelectSeq(candidates, Hit)
    IN IF hits # <<>> THEN hits[1]
       ELSE [league |-> league_key, text |-> team \o Sp \o Dash \o Sp \o S_NoGame]

\* the two nested loops: favs after the entries fav_map[i..]
RECURSIVE ResolveFrom(_, _, _)
ResolveFrom(fav_map, i, candidates) ==
    IF i > Len(fav_map) THEN <<>>
    ELSE [k \in 1..Len(fav_map[i][2]) |-> ResolveTeam(candidates, fav_map[i][1], fav_map[i][2][k])]
         \o ResolveFrom(fav_map, i + 1, candidates)

\* faulty variant: the mapping is read with data.setdefault("favoritesTeams", {})
SetFavorites_SetDefault(doc) ==
    LET candidates == GetList(doc, "today") \o GetList(doc, "finals")
        favs == ResolveFrom(GetFavMap(doc), 1, candidates)
    IN [doc EXCEPT !.favorites = Take(favs, MaxFavorites),
                   !.keys = @ \cup {"favorites", "favoritesTeams"}]

\* data["favorites"] = favs[:60]
SetFavorites(doc) ==
    LET candidates == GetList(doc, "today") \o GetList(doc, "finals")
        favs == ResolveFrom(GetFavMap(doc), 1, candidates)
    IN [doc EXCEPT !.favorites = Take(favs, MaxFavorites), !.keys = @ \cup {"favorites"}]

-----------------------------------------------------------------------------
(* main: merge and persist                                                 *)

\* the keys of ENDPOINTS in iteration order; hasQuery: the URL holds a "?"
ENDPOINTS ==
    << [league |-> "NFL", hasQuery |-> FALSE],
       [league |-> "NHL", hasQuery |-> FALSE],
       [league |-> "MLB", hasQuery |-> FALSE],
       [league |-> "NCAA", hasQuery |-> TRUE] >>

NumLeagues == Len(ENDPOINTS)
LeagueAt(i) == ENDPOINTS[i].league

\* a URL: the endpoint, and the dates parameter appended to it ("" when none)
BaseUrl(i) == [league |-> LeagueAt(i), sep |-> "", dates |-> ""]

\* with_dates(url, dates_value), for the endpoint i
with_dates(i, dates_value) ==
    [league |-> LeagueAt(i), sep |-> IF ENDPOINTS[i].hasQuery THEN "&" ELSE "?",
     dates |-> dates_value]

today_range == "today-tomorrow"
finals_range == "yesterday-today"

StatusLine == "NFL * NCAA FB * MLB * NHL -- auto-updated"

\* new_today[:250] and new_finals[:250]
MaxToday == 250
MaxFinals == 250

\* faulty variant: the list is overwritten even when nothing was fetched
MergeList_Always(doc, key, new_items) ==
    IF key = "today"
    THEN [doc EXCEPT !.today = Take(new_items, MaxToday), !.keys = @ \cup {"today"}]
    ELSE [doc EXCEPT !.finals = Take(new_items, MaxFinals), !.keys = @ \cup {"finals"}]

\* faulty variant: the old items of the leagues that brought nothing are kept after the new ones
MergeList_KeepOthers(doc, key, new_items) ==
    LET old == GetList(doc, key)
        Stale(it) == \A k \in 1..Len(new_items) : new_items[k].league # it.league
        merged == Take(new_items \o SelectSeq(old, Stale), MaxToday)
    IN IF new_items = <<>> THEN doc
       ELSE IF key = "today"
            THEN [doc EXCEPT !.today = merged, !.keys = @ \cup {"today"}]
            ELSE [doc EXCEPT !.finals = merged, !.keys = @ \cup {"finals"}]

\* if new_items: data[key] = new_items[:250]  (else the key is left as it is)
MergeList(doc, key, new_items) ==
    IF new_items = <<>> THEN doc
    ELSE IF key = "today"
         THEN [doc EXCEPT !.today = Take(new_items, MaxToday), !.keys = @ \cup {"today"}]
         ELSE [doc EXCEPT !.finals = Take(new_items, MaxFinals), !.keys = @ \cup {"finals"}]

\* data["statusLine"] = "..."
StampStatus(doc) == [doc EXCEPT !.statusLine = StatusLine, !.keys = @ \cup {"statusLine"}]

\* faulty variant: an empty finals list asks for the unfiltered fetch too
NeedsFallback_EitherEmpty(its_today, its_finals) == its_today = <<>> \/ its_finals = <<>>

\* `if not items_today:` the unfiltered fetch is tried
NeedsFallback(its_today, its_finals) == its_today = <<>>

\* faulty variant: what was built before the exception is appended
AfterError_KeepBuilt(acc, built) == acc \o built

\* the accumulated list after the except clause ran: nothing of the league is added
AfterError(acc, built) == acc

\* new_today.extend(items_today) / new_finals.extend(items_finals)
Extend(acc, its) == acc \o its

\* faulty variant: a missing or malformed file is read as an empty document
LoadSucceeds_Always(f) == TRUE

\* load_data succeeds when the file exists and holds JSON
LoadSucceeds(f) == f.kind = "json"

-----------------------------------------------------------------------------
(* The persisted documents a run may start from                            *)

T_Sched == <<"G","i","a","n","t","s"," ","@"," ","J","e","t","s"," ","1",":","0","0"," ","P","M"," ","E","T">>
T_OldFinal == <<"F","I","N","A","L",":"," ","G","i","a","n","t","s"," ","7"," ","--"," ","J","e","t","s"," ","1","0">>
T_OldNhl == <<"S","t","a","r","s"," ","@"," ","C","o","w","b","o","y","s"," ","8",":","0","0"," ","P","M"," ","E","T">>
N_cowboys == <<"c","o","w","b","o","y","s">>
N_Cow == <<"C","o","w">>
N_ET == <<"E","T">>
N_Giants == <<"G","I","A","N","T","S">>
N_Time == <<"7",":","1","5"," ","P","M">>

Item(l, t) == [league |-> l, text |-> t]

EmptyDoc ==
    [keys |-> {}, today |-> <<>>, finals |-> <<>>, favorites |-> <<>>,
     favoritesTeams |-> <<>>, statusLine |-> "", extra |-> ""]

FavTeams ==
    << <<"NFL", <<N_Cowboys, N_cowboys, N_Cow, N_Eagles, N_ET, N_Jets, N_Giants, N_Time>> >>,
       <<"NHL", <<N_Cowboys, N_Jets>> >>,
       <<"XFL", <<N_Jets>> >> >>

\* a document written by an earlier run
DocOld ==
    [keys |-> {"today", "finals", "favorites", "favoritesTeams", "statusLine", "title"},
     today |-> <<Item("NFL", T_Sched), Item("NHL", T_OldNhl)>>,
     finals |-> <<Item("NFL", T_OldFinal), Item("MLB", <<"G">>)>>,
     favorites |-> <<Item("NFL", T_Sched)>>,
     favoritesTeams |-> FavTeams,
     statusLine |-> "old status",
     extra |-> "Office Ticker"]

\* a hand-written document: only favoritesTeams
DocFresh ==
    [EmptyDoc EXCEPT !.keys = {"favoritesTeams"},
                     !.favoritesTeams = << <<"NCAA", <<N_Jets, N_Eagles>> >> >>]

\* no favoritesTeams; empty finals
DocNoFavs ==
    [EmptyDoc EXCEPT !.keys = {"today", "finals", "title"},
                     !.today = <<Item("MLB", T_Sched)>>,
                     !.extra = "Office Ticker"]

\* more favourite teams than favs[:60] keeps
ManyTeams == [k \in 1..(MaxFavorites + 1) |-> IF k % 2 = 1 THEN <<"G">> ELSE <<"X", DigitChars[(k % 10) + 1]>>]
DocMany ==
    [EmptyDoc EXCEPT !.keys = {"today", "finals", "favoritesTeams"},
                     !.finals = <<Item("MLB", <<"G">>)>>,
                     !.favoritesTeams = << <<"MLB", ManyTeams>> >>]

Json(doc) == [kind |-> "json", doc |-> doc]

Files ==
    { [kind |-> "missing", doc |-> EmptyDoc],
      [kind |-> "malformed", doc |-> EmptyDoc],
      Json(DocOld), Json(DocFresh), Json(DocNoFavs), Json(DocMany) }

\* what fetch_json may return, by what the servers hold during the run: off
\* season or a few games (and a body that is JSON but no object), or more
\* games than the ticker keeps
Upstreams == {"quiet", "busy"}
Responses == IF upstream = "quiet" THEN {SbEmpty, SbSmall, SbNotDict} ELSE {SbBig}

-----------------------------------------------------------------------------
(* One run of main                                                         *)

Init ==
    /\ pc = "load"
    /\ file \in Files
    /\ file0 = file
    /\ data = EmptyDoc
    /\ new_today = <<>> /\ new_finals = <<>>
    /\ li = 1
    /\ sb_today = SbEmpty /\ sb_finals = SbEmpty /\ sb_fallback = SbEmpty
    /\ items_today = <<>> /\ items_finals = <<>>
    /\ requests = <<>>
    /\ status = [i \in 1..NumLeagues |-> "pending"]
    /\ writes = 0
    /\ upstream \in Upstreams
    /\ b_pc = "idle" /\ b_sb = SbEmpty /\ b_league = "" /\ b_mode = "" /\ b_out = <<>>

\* data = load_data(): an exception leaves main before anything else runs
Load ==
    /\ pc = "load"
    /\ IF LoadSucceeds(file)
       THEN /\ data' = file.doc
            /\ pc' = "fetch_today"
       ELSE /\ data' = data
            /\ pc' = "aborted"
    /\ UNCHANGED <<file, new_today, new_finals, li, sb_today, sb_finals, sb_fallback,
                   items_today, items_finals, file0, requests, status, writes, upstream, buildVars>>

\* a call of fetch_json(url) that returned (ok) or raised
Fetch(url, ok) == [url |-> url, ok |-> ok]

\* the loop goes on to the next league, or ends
NextLeague ==
    IF li < NumLeagues
    THEN li' = li + 1 /\ pc' = "fetch_today"
    ELSE li' = li /\ pc' = "loop_end"

\* the except clause: the league's iteration ends, the lists are as they were
Failed(built_today, built_finals) ==
    /\ status' = [status EXCEPT ![li] = "error"]
    /\ new_today' = AfterError(new_today, built_today)
    /\ new_finals' = AfterError(new_finals, built_finals)
    /\ NextLeague

\* lines 158-160: the league's items are appended
Succeeded(its_today, its_finals) ==
    /\ status' = [status EXCEPT ![li] = "ok"]
    /\ new_today' = Extend(new_today, its_today)
    /\ new_finals' = Extend(new_finals, its_finals)
    /\ NextLeague

\* sb_today = fetch_json(url_today) returns.  The locals of the previous
\* iteration are dead here: each is assigned before it is read again.
FetchTodayOk(resp) ==
    /\ pc = "fetch_today"
    /\ requests' = <<Fetch(with_dates(li, today_range), TRUE)>>
    /\ sb_today' = resp
    /\ sb_finals' = SbEmpty /\ sb_fallback' = SbEmpty
    /\ items_today' = <<>> /\ items_finals' = <<>>
    /\ pc' = "fetch_finals"
    /\ UNCHANGED <<file, data, new_today, new_finals, li, file0, status, writes, upstream, buildVars>>

\* fetch_json(url_today) raises
FetchTodayRaises ==
    /\ pc = "fetch_today"
    /\ requests' = <<Fetch(with_dates(li, today_range), FALSE)>>
    /\ sb_today' = SbEmpty /\ sb_finals' = SbEmpty /\ sb_fallback' = SbEmpty
    /\ items_today' = <<>> /\ items_finals' = <<>>
    /\ Failed(<<>>, <<>>)
    /\ UNCHANGED <<file, data, file0, writes, upstream, buildVars>>

\* sb_finals = fetch_json(url_finals) returns, then lines 145-149
FetchFinalsOk(resp) ==
    /\ pc = "fetch_finals"
    /\ requests' = Append(requests, Fetch(with_dates(li, finals_range), TRUE))
    /\ sb_finals' = resp
    /\ IF BuildRaises(sb_today)
       THEN /\ items_today' = items_today /\ items_finals' = items_finals
            /\ Failed(<<>>, <<>>)
       ELSE \E built_today \in {build_items(sb_today, LeagueAt(li), "today")} :
               /\ items_today' = built_today
               /\ IF BuildRaises(resp)
                  THEN /\ items_finals' = items_finals
                       /\ Failed(built_today, <<>>)
                  ELSE \E built_finals \in {build_items(resp, LeagueAt(li), "finals")} :
                          /\ items_finals' = built_finals
                          /\ IF NeedsFallback(built_today, built_finals)
                             THEN /\ pc' = "fetch_fallback"
                                  /\ UNCHANGED <<li, status, new_today, new_finals>>
                             ELSE Succeeded(built_today, built_finals)
    /\ UNCHANGED <<file, data, sb_today, sb_fallback, file0, writes, upstream, buildVars>>

\* fetch_json(url_finals) raises
FetchFinalsRaises ==
    /\ pc = "fetch_finals"
    /\ requests' = Append(requests, Fetch(with_dates(li, finals_range), FALSE))
    /\ Failed(<<>>, <<>>)
    /\ UNCHANGED <<file, data, sb_today, sb_finals, sb_fallback, items_today,
                   items_finals, file0, writes, upstream, buildVars>>

\* sb_fallback = fetch_json(base_url) returns, then lines 152-160
FetchFallbackOk(resp) ==
    /\ pc = "fetch_fallback"
    /\ requests' = Append(requests, Fetch(BaseUrl(li), TRUE))
    /\ sb_fallback' = resp
    /\ IF BuildRaises(resp)
       THEN /\ items_today' = items_today
            /\ Failed(items_today, items_finals)
       ELSE \E built_today \in {build_items(resp, LeagueAt(li), "today")} :
               /\ items_today' = built_today
               /\ Succeeded(built_today, items_finals)
    /\ UNCHANGED <<file, data, sb_today, sb_finals, items_finals, file0, writes, upstream, buildVars>>

\* fetch_json(base_url) raises
FetchFallbackRaises ==
    /\ pc = "fetch_fallback"
    /\ requests' = Append(requests, Fetch(BaseUrl(li), FALSE))
    /\ Failed(items_today, items_finals)
    /\ UNCHANGED <<file, data, sb_today, sb_finals, sb_fallback, items_today,
                   items_finals, file0, writes, upstream, buildVars>>

\* the for loop is exhausted.  Nothing after the loop reads the locals of
\* its body, so they are dropped here, with the history of the last iteration.
ExitLoop ==
    /\ pc = "loop_end"
    /\ pc' = "merge"
    /\ sb_today' = SbEmpty /\ sb_finals' = SbEmpty /\ sb_fallback' = SbEmpty
    /\ items_today' = <<>> /\ items_finals' = <<>>
    /\ requests' = <<>>
    /\ UNCHANGED <<file, data, new_today, new_finals, li, file0, status, writes,
                   upstream, buildVars>>

\* lines 165-197: merge, favourites, status line, save_data
Finish ==
    /\ pc = "merge"
    /\ \E merged \in {MergeList(MergeList(data, "today", new_today), "finals", new_finals)} :
       \E saved \in {StampStatus(SetFavorites(merged))} :
          /\ data' = saved
          /\ file' = Json(saved)
    /\ writes' = writes + 1
    /\ pc' = "done"
    /\ UNCHANGED <<new_today, new_finals, li, sb_today, sb_finals, sb_fallback,
                   items_today, items_finals, file0, requests, status, upstream, buildVars>>

Next ==
    \/ Load
    \/ FetchTodayRaises
    \/ \E resp \in Responses : FetchTodayOk(resp)
    \/ FetchFinalsRaises
    \/ \E resp \in Responses : FetchFinalsOk(resp)
    \/ FetchFallbackRaises
    \/ \E resp \in Responses : FetchFallbackOk(resp)
    \/ ExitLoop
    \/ Finish

Spec == Init /\ [][Next]_vars

\* the script runs on: no step of a run waits for anything but a fetch, and a
\* fetch returns or raises within its timeout
FairSpec == Spec /\ WF_vars(Next)

-----------------------------------------------------------------------------
(* Properties of build_items (checked under BuildSpec)                     *)

\* the events of a list that a mode keeps, in order
KeptBy(evs, mode) ==
    LET Keep(e) == IF mode = "today" THEN Lower(FirstComp(e).state) # S_post
                   ELSE Lower(FirstComp(e).state) = S_post
    IN SelectSeq(evs, Keep)

\* the returned list holds exactly one item per kept event of evs, in order,
\* each with the league label passed in
OneItemPerKept(evs) ==
    LET kept == KeptBy(evs, b_mode)
    IN /\ Len(b_out) = Len(kept)
       /\ \A k \in 1..Len(b_out) :
            /\ b_out[k].league = b_league
            /\ b_out[k].text = EventText(kept[k])

\* C3 as stated: with mode 'today' every event whose lower-cased state is
\* 'post' is excluded and every other event of the scoreboard yields exactly
\* one item, with mode 'finals' exactly the 'post' events yield one item, in
\* event order and with the league label passed in.
C3_Original == b_pc = "returned" => OneItemPerKept(b_sb.events)

\* C3 amended: the same, for the first 250 events of the scoreboard; events
\* after the 250th yield no item in either mode.
C3_FilterFirst250 == b_pc = "returned" => OneItemPerKept(SubSeq(b_sb.events, 1,
                        IF Len(b_sb.events) < 250 THEN Len(b_sb.events) ELSE 250))

\* a scoreboard of more than 250 events, of which the 251st is not final, was
\* normalised in mode 'today'
C3_Witness ==
    /\ b_pc = "returned" /\ b_mode = "today"
    /\ Len(b_sb.events) > 250
    /\ Lower(FirstComp(b_sb.events[251]).state) # S_post
    /\ Len(b_out) = 125

\* the names and scores the text of an event is built from
C4_Two(e) == Len(FirstComp(e).competitors) >= 2
C4_Home(e) == PickSide(FirstComp(e).competitors, "home", 1)
C4_Away(e) == PickSide(FirstComp(e).competitors, "away", 2)
C4_HomeName(e) == IF C4_Two(e) THEN TeamName(C4_Home(e), S_HOME) ELSE <<>>
C4_AwayName(e) == IF C4_Two(e) THEN TeamName(C4_Away(e), S_AWAY) ELSE <<>>
C4_BothScores(e) == C4_Two(e) /\ C4_Home(e).score.has /\ C4_Away(e).score.has
C4_ScoreText(prefix, e) ==
    prefix \o Sp \o C4_AwayName(e) \o Sp \o C4_Away(e).score.v \o Sp \o Dash
           \o Sp \o C4_HomeName(e) \o Sp \o C4_Home(e).score.v
C4_NameText(e) ==
    IF e.name # <<>> THEN e.name ELSE IF e.shortName # <<>> THEN e.shortName ELSE S_Game

C4_TextOk(e, text) ==
    LET st == Lower(FirstComp(e).state)
        final == st = S_post /\ C4_BothScores(e)
        live == ~final /\ st = S_in /\ C4_BothScores(e)
        time == TimePart(FirstComp(e).date)
        sched == ~final /\ ~live /\ time # <<>> /\ C4_AwayName(e) # <<>> /\ C4_HomeName(e) # <<>>
    IN /\ final => text = C4_ScoreText(S_FINAL, e)
       /\ live => text = C4_ScoreText(S_LIVE, e)
       /\ sched => text = C4_AwayName(e) \o Sp \o S_AT \o Sp \o C4_HomeName(e) \o Sp \o time
       /\ (~final /\ ~live /\ ~sched) => text = C4_NameText(e)
       /\ (st \in {S_post, S_in} /\ ~C4_BothScores(e)) =>
              ~StartsWith(text, S_FINAL) /\ ~StartsWith(text, S_LIVE)
       /\ ~C4_Two(e) => text = C4_NameText(e)

\* C4: the text of every item is chosen by strict priority: FINAL line (state
\* 'post', both scores present), else LIVE line (state 'in', both scores
\* present), else the scheduled form (time and both team names non-empty),
\* else the event's name, short name or "Game"; a 'post' or 'in' event with a
\* missing score gets no FINAL or LIVE line, and an event with fewer than two
\* competitors gets the fallback text.
C4_TextPriority ==
    b_pc = "returned" =>
        LET kept == KeptBy(VisitedEvents(b_sb), b_mode)
        IN /\ Len(b_out) = Len(kept)
           /\ \A k \in 1..Len(b_out) : C4_TextOk(kept[k], b_out[k].text)

\* a live event whose home score is the empty string (present, not None) and a
\* final event with a missing score were normalised
C4_Witness ==
    /\ b_pc = "returned" /\ Len(b_sb.events) = 1 /\ Len(b_out) = 1
    /\ LET e == b_sb.events[1]
       IN \/ /\ Lower(FirstComp(e).state) = S_in /\ C4_BothScores(e)
             /\ C4_Home(e).score.v = <<>>
             /\ StartsWith(b_out[1].text, S_LIVE)
          \/ /\ Lower(FirstComp(e).state) = S_post /\ C4_Two(e) /\ ~C4_BothScores(e)
             /\ FirstComp(e).date.kind = "ts"
             /\ Contains(b_out[1].text, S_AT)

\* "{away} @ {home} {H:MM AM/PM} ET" for the timestamp hh:mm UTC: the hour is
\* not padded, the minutes are, the clock time is five hours behind UTC, and
\* the label ET stands once, at the end
C5_Scheduled(e, text) ==
    \E h12 \in 1..12, pm \in BOOLEAN :
        /\ ((h12 % 12) + (IF pm THEN 12 ELSE 0) + 5) % 24 = FirstComp(e).date.hh
        /\ text = C4_AwayName(e) \o Sp \o S_AT \o Sp \o C4_HomeName(e) \o Sp
                    \o Dec(h12) \o <<":">> \o Dec2(FirstComp(e).date.mm) \o Sp
                    \o (IF pm THEN S_PM ELSE S_AM) \o Sp \o S_ET

\* the index in the result of the item of the i-th event, when it is kept
C5_ItemIndex(evs, i) == Len(KeptBy(SubSeq(evs, 1, i), "today"))

C5_IsScheduled(e) ==
    /\ Lower(FirstComp(e).state) = S_pre
    /\ FirstComp(e).date.kind = "ts"

\* C5 as stated: every event with state 'pre' and a parsable timestamp gets,
\* in mode 'today', the item text "{away} @ {home} {H:MM AM/PM} ET".
C5_Original ==
    (b_pc = "returned" /\ b_mode = "today") =>
        \A i \in 1..Len(b_sb.events) :
            C5_IsScheduled(b_sb.events[i]) =>
                /\ C5_ItemIndex(b_sb.events, i) <= Len(b_out)
                /\ C5_Scheduled(b_sb.events[i], b_out[C5_ItemIndex(b_sb.events, i)].text)

\* C5 amended: every event among the first 250 of the scoreboard that has
\* state 'pre', a parsable timestamp and at least two competitors gets, in
\* mode 'today', the item text "{away} @ {home} {H:MM AM/PM} ET", whether or
\* not it carries scores.
C5_ScheduledText ==
    (b_pc = "returned" /\ b_mode = "today") =>
        \A i \in 1..Len(b_sb.events) :
            (i <= 250 /\ C5_IsScheduled(b_sb.events[i]) /\ C4_Two(b_sb.events[i])) =>
                /\ C5_ItemIndex(b_sb.events, i) <= Len(b_out)
                /\ C5_Scheduled(b_sb.events[i], b_out[C5_ItemIndex(b_sb.events, i)].text)

\* a scheduled event that carries both scores, with a timestamp after noon ET
\* whose hour has one digit, was normalised in mode 'today'
C5_Witness ==
    /\ b_pc = "returned" /\ b_mode = "today" /\ Len(b_sb.events) = 1 /\ Len(b_out) = 1
    /\ C5_IsScheduled(b_sb.events[1]) /\ C4_BothScores(b_sb.events[1])
    /\ FirstComp(b_sb.events[1]).date = Stamp(0, 15)
    /\ SubSeq(b_out[1].text, Len(b_out[1].text) - 9, Len(b_out[1].text))
          = <<"7",":","1","5"," ","P","M"," ","E","T">>


-----------------------------------------------------------------------------
(* Properties of a run of main (checked under Spec and FairSpec)           *)

\* lst[:250]
First250(lst) == SubSeq(lst, 1, IF Len(lst) < 250 THEN Len(lst) ELSE 250)

\* the list persisted under a key, and the one persisted when the run started
Persisted(key) == GetList(file.doc, key)
Loaded(key) == GetList(file0.doc, key)

C1_Wholesale(key, accumulated) ==
    /\ accumulated = <<>> =>
          /\ Persisted(key) = Loaded(key)
          /\ (key \in file.doc.keys) = (key \in file0.doc.keys)
    /\ accumulated # <<>> =>
          /\ Persisted(key) = First250(accumulated)
          /\ key \in file.doc.keys
    /\ Loaded(key) # <<>> => Persisted(key) # <<>>

\* C1: after a run whose load succeeded, the persisted 'today' is the list
\* loaded when the accumulated items are empty and the accumulated items
\* truncated to 250 otherwise, never a mix; the same independently for
\* 'finals'; a non-empty persisted list never becomes empty.
C1_ReplacedWholesale ==
    pc = "done" =>
        /\ C1_Wholesale("today", new_today)
        /\ C1_Wholesale("finals", new_finals)

\* more than 250 items were accumulated for each list and replaced old items
C1_Witness ==
    /\ pc = "done"
    /\ Len(new_today) > 250 /\ Len(new_finals) > 250
    /\ Loaded("today") # <<>> /\ Loaded("finals") # <<>>
    /\ Len(Persisted("today")) = 250 /\ Len(Persisted("finals")) = 250

\* the items of a list that carry a league label
OfLeague(lst, league) ==
    LET Mine(it) == it.league = league
    IN SelectSeq(lst, Mine)

C2_Kept(key, accumulated, league) ==
    IF accumulated = <<>>
    THEN OfLeague(Persisted(key), league) = OfLeague(Loaded(key), league)
    ELSE OfLeague(Persisted(key), league) = <<>>

C6_Matches(text, team) ==
    LET s == [i \in 1..Len(text) |-> LowerChar(text[i])]
        t == [i \in 1..Len(team) |-> LowerChar(team[i])]
    IN \E p \in 1..(Len(s) - Len(t) + 1) :
          /\ \A j \in 1..Len(t) : s[p + j - 1] = t[j]
          /\ p = 1 \/ s[p - 1] = " "
          /\ p + Len(t) - 1 = Len(s) \/ s[p + Len(t)] = " "

\* the k-th (league, team) pair of the mapping: entries in order, then teams
RECURSIVE C6_PairAt(_, _)
C6_PairAt(fav_map, k) ==
    IF k <= Len(fav_map[1][2]) THEN <<fav_map[1][1], fav_map[1][2][k]>>
    ELSE C6_PairAt(Tail(fav_map), k - Len(fav_map[1][2]))

RECURSIVE C6_Count(_)
C6_Count(fav_map) ==
    IF fav_map = <<>> THEN 0 ELSE Len(fav_map[1][2]) + C6_Count(Tail(fav_map))

C6_Entry(pair, candidates) ==
    LET hits == {i \in 1..Len(candidates) :
                    /\ candidates[i].league = pair[1]
                    /\ C6_Matches(candidates[i].text, pair[2])}
    IN IF hits = {}
       THEN [league |-> pair[1], text |-> pair[2] \o <<" ", "--", " ">> \o S_NoGame]
       ELSE candidates[CHOOSE i \in hits : \A j \in hits : i <= j]

\* C6: the favourites written are, position by position, for the (league,
\* team) pairs of favoritesTeams in mapping order then team order, cut to 60:
\* the first item of the persisted 'today' then 'finals' lists (as merged)
\* of the pair's league whose text holds the team name case-insensitively
\* between spaces or string ends, else the placeholder
\* "{team} -- no game/result today" of that league.
C6_Favorites ==
    pc = "done" =>
        LET fav_map == IF "favoritesTeams" \in file.doc.keys THEN file.doc.favoritesTeams ELSE <<>>
            candidates == Persisted("today") \o Persisted("finals")
            n == IF C6_Count(fav_map) < 60 THEN C6_Count(fav_map) ELSE 60
        IN /\ "favorites" \in file.doc.keys
           /\ Len(file.doc.favorites) = n
           /\ \A k \in 1..n : file.doc.favorites[k] = C6_Entry(C6_PairAt(fav_map, k), candidates)

\* the NFL fetch raised and the stale NFL items answer "Jets" and "GIANTS",
\* "Cow" (part of "Cowboys" in an NHL item only... and of no NFL word) and
\* "Cowboys" get the placeholder for NFL while the NHL item answers "Cowboys"
C6_Witness ==
    /\ pc = "done"
    /\ file0 = Json(DocOld)
    /\ status[1] = "error" /\ new_today = <<>> /\ new_finals = <<>>
    /\ Len(file.doc.favorites) = 11
    /\ file.doc.favorites[1] = Item("NFL", N_Cowboys \o <<" ", "--", " ">> \o S_NoGame)
    /\ file.doc.favorites[3] = Item("NFL", N_Cow \o <<" ", "--", " ">> \o S_NoGame)
    /\ file.doc.favorites[5] = Item("NFL", T_Sched)
    /\ file.doc.favorites[6] = Item("NFL", T_Sched)
    /\ file.doc.favorites[7] = Item("NFL", T_Sched)
    /\ file.doc.favorites[9] = Item("NHL", T_OldNhl)

C8_Frame ==
    pc = "done" =>
        LET own == {"today", "finals", "favorites", "statusLine"}
        IN /\ file.doc.keys \ own = file0.doc.keys \ own
           /\ file.doc.favoritesTeams = file0.doc.favoritesTeams
           /\ file.doc.extra = file0.doc.extra

\* a document without favoritesTeams went through a run that replaced today
C8_Witness ==
    /\ pc = "done"
    /\ "favoritesTeams" \notin file0.doc.keys
    /\ "title" \in file0.doc.keys
    /\ new_today # <<>>
    /\ Persisted("today") # Loaded("today")
    /\ "favoritesTeams" \notin file.doc.keys


\* the league of the latest iteration that fetched, and its fetches
C9_League == requests[1].url.league
C9_Dates == [k \in 1..Len(requests) |-> requests[k].url.dates]

\* both date-filtered fetches returned and the date-filtered result gave zero
\* 'today' items
C9_TodayCameEmpty ==
    /\ Len(requests) >= 2 /\ requests[1].ok /\ requests[2].ok
    /\ sb_today.shape = "dict"
    /\ build_items(sb_today, C9_League, "today") = <<>>

\* the order of the fetches of a league, the third one being issued if and
\* only if `third` held after the second
C9_Order(third) ==
    /\ Len(requests) <= 3
    /\ \A k \in 1..Len(requests) : requests[k].url.league = C9_League
    /\ C9_Dates \in { <<>>, <<"today-tomorrow">>, <<"today-tomorrow", "yesterday-today">>,
                      <<"today-tomorrow", "yesterday-today", "">> }
    /\ Len(requests) >= 2 => requests[1].ok
    /\ Len(requests) = 3 => third
    /\ (Len(requests) = 2 /\ third) => pc = "fetch_fallback"
    /\ pc = "fetch_fallback" => (Len(requests) = 2 /\ third)
    /\ (Len(requests) = 3 /\ requests[3].ok /\ sb_fallback.shape = "dict") =>
          /\ items_today = build_items(sb_fallback, C9_League, "today")
          /\ items_finals = build_items(sb_finals, C9_League, "finals")
    /\ pc \in {"fetch_finals", "fetch_fallback"} => C9_League = LeagueAt(li)
    /\ (pc = "fetch_today" /\ requests # <<>>) => (li > 1 /\ C9_League = LeagueAt(li - 1))
    /\ pc # "idle" =>
          \A j \in 1..NumLeagues :
              /\ j < li => status[j] # "pending"
              /\ j > li => status[j] = "pending"
              /\ (j = li /\ status[j] # "pending") => pc \in {"loop_end", "merge", "done"}

\* C9 as stated: per league main fetches the date-filtered 'today' URL, then
\* the date-filtered 'finals' URL, and a third, unfiltered URL if and only if
\* both returned and the date-filtered result gave zero 'today' items; the
\* fallback result replaces the league's 'today' items only; an empty 'finals'
\* result asks for no fetch; at most three fetches per league, leagues one
\* after another.
C9_Original == C9_Order(C9_TodayCameEmpty)

\* C9 amended: the same, the third fetch being issued if and only if both
\* date-filtered fetches returned, the date-filtered result gave zero 'today'
\* items and normalising the 'finals' result raised no exception.
C9_FetchOrder == C9_Order(C9_TodayCameEmpty /\ sb_finals.shape = "dict")

\* a league's date-filtered fetches gave 'today' items and no 'finals' item,
\* and its iteration ended after two fetches
C9_Witness ==
    /\ pc = "fetch_today" /\ li = 3
    /\ status[2] = "ok"
    /\ Len(requests) = 2
    /\ items_today # <<>> /\ items_finals = <<>>
    /\ status[1] = "ok" /\ new_today # items_today

\* a request or a normalisation of the latest iteration raised
C10_Raised ==
    \/ \E k \in 1..Len(requests) : ~requests[k].ok
    \/ sb_today.shape # "dict"
    \/ Len(requests) >= 2 /\ requests[2].ok /\ sb_finals.shape # "dict"
    \/ Len(requests) = 3 /\ requests[3].ok /\ sb_fallback.shape # "dict"

\* in a step that ends the iteration of league i: nothing is added when a
\* fetch or normalisation raised, all items of both modes are added otherwise,
\* and the loop goes on
C10_Step ==
    /\ \A i \in 1..NumLeagues :
          (status[i] = "pending" /\ status'[i] # "pending") =>
              /\ i = li
              /\ status'[i] = IF C10_Raised' THEN "error" ELSE "ok"
              /\ C10_Raised' => (new_today' = new_today /\ new_finals' = new_finals)
              /\ ~C10_Raised' =>
                    /\ new_today' = new_today \o
                          build_items(IF Len(requests') = 3 THEN sb_fallback' ELSE sb_today',
                                      LeagueAt(i), "today")
                    /\ new_finals' = new_finals \o build_items(sb_finals', LeagueAt(i), "finals")
              /\ IF i < NumLeagues THEN pc' = "fetch_today" /\ li' = i + 1
                 ELSE pc' = "loop_end"
    /\ Len(new_today) <= Len(new_today') /\ SubSeq(new_today', 1, Len(new_today)) = new_today
    /\ Len(new_finals) <= Len(new_finals') /\ SubSeq(new_finals', 1, Len(new_finals)) = new_finals

\* C10: a league's contribution is all-or-nothing across both modes: when any
\* of its fetches or normalisations raises it adds no item to either
\* accumulated list, even with its 'finals' items already built; otherwise it
\* adds all its 'today' and all its 'finals' items.  An exception removes
\* nothing accumulated earlier and the later leagues are still processed.
C10_AllOrNothing == [][C10_Step]_vars

\* the fallback fetch of a league raised after its 'finals' items were built:
\* none of them was added, the items of an earlier league are still there, and
\* the next league is being processed
C10_Witness ==
    /\ pc = "fetch_today" /\ li >= 3
    /\ status[li - 1] = "error"
    /\ Len(requests) = 3 /\ ~requests[3].ok
    /\ items_finals # <<>>
    /\ new_finals # <<>>
    /\ \A k \in 1..Len(new_finals) : new_finals[k].league # LeagueAt(li - 1)

====
